---- MODULE Spec2Model ----
(***************************************************************************)
(* FileExtractor: the scanner (utils/file_utils.py FileAnalyzer) and the   *)
(* organizer (core/file_organizer.py FileOrganizer) as a state machine     *)
(* over a small file system.                                               *)
(*                                                                         *)
(* A path is the tuple of its parts (pathlib's Path.parts), a file name is *)
(* a string, the file system maps the paths of regular files to their      *)
(* content and size, and dirs is the set of directories under the target.  *)
(* Chinese directory names of the source are written in pinyin.            *)
(***************************************************************************)
EXTENDS Integers, Sequences, FiniteSets, TLC

VARIABLES
    source_dir,       \* organize_files argument
    target_dir,       \* organize_files argument
    methods,          \* organize_files argument: the requested strategy names
    ai_analyzer,      \* organize_files argument: TRUE when a classifier is given
    keep_originals,   \* organize_files argument: copy (TRUE) or move (FALSE)
    stdout,           \* the encoding of sys.stdout, where print writes
    call,             \* a function called on its own: [fn, arg, out]
    run,              \* 1 in the first call of organize_files, 2 in a repeated one
    fs,               \* regular files on disk: path -> [id, size, mtime, mime]
    dirs,             \* directories on disk (target side)
    pc,               \* position of organize_files
    files,            \* the descriptors scan_directory returned
    mi,               \* index into methods of the strategy being applied
    fi,               \* index into files of the descriptor being relocated
    cur,              \* the running handler's locals: directories, moved_files
    organized_files,  \* method -> plan, as organize_files collects them
    result,           \* what organize_files returned
    fs0,              \* history: the file system when organize_files was called
    dirs0,            \* history: the directories when organize_files was called
    placed,           \* history: every write _move_or_copy_file completed
    skipped,          \* history: pass, descriptor, directory of every relocation not made
    vanished,         \* history: source paths another process removed
    unread,           \* history: walked paths get_file_info returned {} for
    made,             \* history: <<mi, dir>> of every mkdir of a bucket directory
    faults,           \* history: number of injected environment failures
    workers,          \* two runs relocating at once: their positions and a log
    gui               \* the main window: its widgets, worker threads and queued signals

vars == <<source_dir, target_dir, methods, ai_analyzer, keep_originals, stdout, call,
          run, fs, dirs,
          pc, files, mi, fi, cur, organized_files, result, fs0, dirs0, placed,
          skipped, vanished, unread, made, faults, workers, gui>>

inputs == <<source_dir, target_dir, methods, ai_analyzer, keep_originals, stdout,
            call, run, fs0, dirs0, workers, gui>>

\* ------------------------------------------------------------------ bounds
\* Number of files below the source root (the target's own are extra).
MaxFiles == 3
\* Number of worker threads of one kind the window has started and whose
\* finished signal it has not handled yet.
MaxThreads == 2
\* Number of environment failures (I/O errors, vanished files) in one run.
MaxFaults == 1

\* ----------------------------------------------------------------- strings
RECURSIVE RFind(_, _, _)
\* str.rfind(ch) restricted to s[1..i]: the last index of ch, 0 when absent.
RFind(s, ch, i) ==
    IF i = 0 THEN 0
    ELSE IF SubSeq(s, i, i) = ch THEN i
    ELSE RFind(s, ch, i - 1)

StartsWith(s, prefix) ==
    Len(s) >= Len(prefix) /\ SubSeq(s, 1, Len(prefix)) = prefix

\* keyword in name
Contains(s, kw) ==
    \E i \in 1..(Len(s) - Len(kw) + 1) : SubSeq(s, i, i + Len(kw) - 1) = kw

UpperCase == <<"A", "B", "C", "D", "E", "F", "G", "H", "I", "J", "K", "L", "M",
               "N", "O", "P", "Q", "R", "S", "T", "U", "V", "W", "X", "Y", "Z">>
LowerCase == <<"a", "b", "c", "d", "e", "f", "g", "h", "i", "j", "k", "l", "m",
               "n", "o", "p", "q", "r", "s", "t", "u", "v", "w", "x", "y", "z">>

LowerChar(c) ==
    IF \E k \in 1..26 : UpperCase[k] = c
    THEN LowerCase[CHOOSE k \in 1..26 : UpperCase[k] = c]
    ELSE c

RECURSIVE Lower(_)
\* str.lower()
Lower(s) == IF s = "" THEN "" ELSE LowerChar(Head(s)) \o Lower(Tail(s))

\* os.path.splitext on a file name: <<root, ext>>; a name made of leading dots
\* and no other dot has no extension.
SplitExt(name) ==
    LET d == RFind(name, ".", Len(name))
    IN  IF d > 0 /\ \E k \in 1..(d - 1) : SubSeq(name, k, k) # "."
        THEN <<SubSeq(name, 1, d - 1), SubSeq(name, d, Len(name))>>
        ELSE <<name, "">>

\* pathlib's Path.suffix: the last dot and what follows, unless the dot is the
\* first or the last character.
Suffix(name) ==
    LET d == RFind(name, ".", Len(name))
    IN  IF 1 < d /\ d < Len(name) THEN SubSeq(name, d, Len(name)) ELSE ""

\* ------------------------------------------------------------------- paths
BaseName(path) == path[Len(path)]
DirName(path) == SubSeq(path, 1, Len(path) - 1)
\* os.path.join(directory, name)
Join(dir, name) == Append(dir, name)
IsPrefix(p, q) == Len(p) <= Len(q) /\ SubSeq(q, 1, Len(p)) = p
\* the directory and all its parents
Parents(dir) == {SubSeq(dir, 1, k) : k \in 1..Len(dir)}

\* os.path.exists
Exists(disk, ds, path) == path \in DOMAIN disk \/ path \in ds

Remove(disk, path) == [q \in (DOMAIN disk) \ {path} |-> disk[q]]
Put(disk, path, file) == [q \in (DOMAIN disk) \cup {path} |->
                             IF q = path THEN file ELSE disk[q]]

\* ----------------------------------------------------------------- scanner
\* FileAnalyzer.file_types, in the order of the dict
file_types == <<
    <<"image",    {".jpg", ".jpeg", ".png", ".gif", ".bmp", ".tiff", ".heic", ".webp"}>>,
    <<"video",    {".mp4", ".avi", ".mov", ".wmv", ".flv", ".mkv", ".webm", ".m4v"}>>,
    <<"audio",    {".mp3", ".wav", ".aac", ".m4a", ".flac", ".ogg", ".wma"}>>,
    <<"document", {".pdf", ".doc", ".docx", ".txt", ".rtf", ".ppt", ".pptx", ".xls", ".xlsx"}>>,
    <<"archive",  {".zip", ".rar", ".7z", ".tar", ".gz", ".bz2"}>>,
    <<"other",    {}>> >>

categorize_file(extension, mime_type) ==
    IF \E k \in 1..Len(file_types) : extension \in file_types[k][2]
    THEN file_types[CHOOSE k \in 1..Len(file_types) : extension \in file_types[k][2]][1]
    ELSE IF StartsWith(mime_type, "image/") THEN "image"
    ELSE IF StartsWith(mime_type, "video/") THEN "video"
    ELSE IF StartsWith(mime_type, "audio/") THEN "audio"
    ELSE IF StartsWith(mime_type, "text/")
            \/ mime_type \in {"application/pdf", "application/msword"} THEN "document"
    ELSE IF StartsWith(mime_type, "application/zip")
            \/ StartsWith(mime_type, "application/x-rar") THEN "archive"
    ELSE "other"

\* The descriptor get_file_info builds for an existing, readable file.
get_file_info(disk, path) ==
    [name          |-> BaseName(path),
     path          |-> path,
     size          |-> disk[path].size,
     modified_time |-> disk[path].mtime,
     file_type     |-> categorize_file(Lower(Suffix(BaseName(path))), disk[path].mime),
     mime_type     |-> disk[path].mime,
     extension     |-> Lower(Suffix(BaseName(path)))]

\* ------------------------------------------------------- organizer, tables
organization_methods == {"by_type", "by_time", "by_content", "by_size", "by_chat"}

\* A table that gives every key a directory of its own name.
ChineseNameOfItsOwn(key) == key

\* FileOrganizer.chinese_names, grouped by directory name
chinese_names == <<
    <<{"jpg", "png", "gif", "bmp", "tiff", "heic", "webp"}, "TuPianWenJian">>,
    <<{"mp4", "avi", "mov", "wmv", "flv", "mkv", "webm", "m4v", "videos"}, "ShiPinWenJian">>,
    <<{"mp3", "wav", "aac", "m4a", "flac", "ogg", "wma"}, "YinPinWenJian">>,
    <<{"pdf"}, "PDFWenDang">>,
    <<{"doc", "docx"}, "WordWenDang">>,
    <<{"txt"}, "WenBenWenJian">>,
    <<{"rtf"}, "FuWenBenWenJian">>,
    <<{"ppt", "pptx"}, "PPTYanShi">>,
    <<{"xls", "xlsx"}, "ExcelBiaoGe">>,
    <<{"zip", "rar", "7z", "tar", "gz", "bz2"}, "YaSuoWenJian">>,
    <<{"no_ext"}, "WuKuoZhanMingWenJian">>,
    <<{"reports_research"}, "BaoGaoYanJiu">>,
    <<{"plans_strategies"}, "JiHuaCeLve">>,
    <<{"work_projects"}, "GongZuoXiangMu">>,
    <<{"audio_recordings"}, "LuYinWenJian">>,
    <<{"images_photos"}, "TuPianZhaoPian">>,
    <<{"documents"}, "WenDangZiLiao">>,
    <<{"data_spreadsheets"}, "ShuJuBiaoGe">>,
    <<{"contracts_agreements"}, "HeTongXieYi">>,
    <<{"personal_documents"}, "GeRenZiLiao">>,
    <<{"financial_documents"}, "CaiWuWenDang">>,
    <<{"learning_materials"}, "XueXiZiLiao">>,
    <<{"marketing_materials"}, "YingXiaoCaiLiao">>,
    <<{"periodic_reports"}, "DingQiBaoGao">>,
    <<{"market_insights"}, "ShiChangDongCha">>,
    <<{"technology_ai"}, "JiShuAI">>,
    <<{"health_fitness"}, "JianKangJianShen">>,
    <<{"travel_accommodation"}, "LvYouZhuSu">>,
    <<{"shopping_orders"}, "GouWuDingDan">>,
    <<{"social_chat"}, "SheJiaoLiaoTian">>,
    <<{"entertainment_games"}, "YuLeYouXi">>,
    <<{"daily_life"}, "RiChangShengHuo">>,
    <<{"archives"}, "GuiDangWenJian">>,
    <<{"other_files"}, "QiTaWenJian">>,
    <<{"tiny"}, "JiXiaoWenJian">>,
    <<{"small"}, "XiaoWenJian">>,
    <<{"medium"}, "ZhongDengWenJian">>,
    <<{"large"}, "DaWenJian">>,
    <<{"huge"}, "ChaoDaWenJian">>,
    <<{"unknown"}, "WeiZhiLiaoTian">> >>

\* self.chinese_names.get(key, key)
get_chinese_name(key) ==
    IF \E k \in 1..Len(chinese_names) : key \in chinese_names[k][1]
    THEN chinese_names[CHOOSE k \in 1..Len(chinese_names) : key \in chinese_names[k][1]][2]
    ELSE key

\* A folder shared by every strategy.
MethodFolderShared(method) == "FenLei"

\* The fixed folder of each strategy under the target root.
MethodFolder(method) ==
    CASE method = "by_type"    -> "AnLeiXingFenLei"
      [] method = "by_time"    -> "AnShiJianFenLei"
      [] method = "by_content" -> "AnNeiRongFenLei"
      [] method = "by_size"    -> "AnDaXiaoFenLei"
      [] method = "by_chat"    -> "AnLiaoTianFenLei"

\* A normalisation that merges nothing.
NormalizeNothing(ext_key) ==
    IF ext_key = "" THEN "no_ext" ELSE ext_key

\* ------------------------------------------------------ organizer, buckets
normalize_extension(ext_key) ==
    IF ext_key = "" THEN "no_ext"
    ELSE IF ext_key \in {"jpeg", "jpe"} THEN "jpg"
    ELSE IF ext_key = "tif" THEN "tiff"
    ELSE IF ext_key = "htm" THEN "html"
    ELSE ext_key

\* _organize_by_type: ext_key of a descriptor
TypeKey(file_info) ==
    LET ext == Lower(file_info.extension)
    IN  normalize_extension(
            IF StartsWith(ext, ".") /\ Len(ext) > 1 THEN SubSeq(ext, 2, Len(ext))
            ELSE IF ext # "" THEN ext ELSE "no_ext")

KiB == 1024

\* The categories with the thresholds counted into the smaller one.
SizeCategoryInclusive(file_info) ==
    IF file_info.size <= KiB THEN "tiny"
    ELSE IF file_info.size <= KiB * KiB THEN "small"
    ELSE IF file_info.size <= 10 * KiB * KiB THEN "medium"
    ELSE IF file_info.size <= 100 * KiB * KiB THEN "large"
    ELSE "huge"

\* _organize_by_size: size_category of a descriptor
SizeCategory(file_info) ==
    IF file_info.size < KiB THEN "tiny"
    ELSE IF file_info.size < KiB * KiB THEN "small"
    ELSE IF file_info.size < 10 * KiB * KiB THEN "medium"
    ELSE IF file_info.size < 100 * KiB * KiB THEN "large"
    ELSE "huge"

\* The label without the zero that pads the month.
YearMonthUnpadded(file_info) ==
    LET t == file_info.modified_time
    IN  ToString(t.year) \o "nian" \o ToString(t.month) \o "yue"

\* _organize_by_time: f"{year}nian{month:02d}yue"
YearMonth(file_info) ==
    LET t == file_info.modified_time
    IN  ToString(t.year) \o "nian"
          \o (IF t.month < 10 THEN "0" ELSE "") \o ToString(t.month) \o "yue"

\* _extract_chat_object: the first part of the path that starts with msg or chat
extract_chat_object(path_parts) ==
    IF \E k \in 1..Len(path_parts) :
           StartsWith(path_parts[k], "msg") \/ StartsWith(path_parts[k], "chat")
    THEN LET first == CHOOSE k \in 1..Len(path_parts) :
                 /\ StartsWith(path_parts[k], "msg") \/ StartsWith(path_parts[k], "chat")
                 /\ \A j \in 1..(k - 1) :
                        ~(StartsWith(path_parts[j], "msg") \/ StartsWith(path_parts[j], "chat"))
         IN  path_parts[first]
    ELSE "unknown"

\* The keyword groups of _smart_categorize in their order (the ASCII keywords;
\* the names of the model are ASCII).
KeywordGroups == <<
    <<{"report", "analysis", "research"}, "reports_research">>,
    <<{"plan", "strategy", "proposal"}, "plans_strategies">>,
    <<{"work", "project", "okr", "pmo"}, "work_projects">>,
    <<{"audio", "voice"}, "audio_recordings">>,
    <<{"image", "photo", "screenshot"}, "images_photos">>,
    <<{"video"}, "videos">>,
    <<{"document", "doc", "pdf"}, "documents">>,
    <<{"data", "excel", "xlsx"}, "data_spreadsheets">>,
    <<{"contract", "agreement"}, "contracts_agreements">>,
    <<{"resume", "cv"}, "personal_documents">>,
    <<{"finance", "bill", "invoice"}, "financial_documents">>,
    <<{"study", "training", "education"}, "learning_materials">>,
    <<{"marketing", "advertisement"}, "marketing_materials">>,
    <<{"annual", "quarterly", "monthly"}, "periodic_reports">>,
    <<{"market", "industry", "insight"}, "market_insights">>,
    <<{"tech", "ai"}, "technology_ai">>,
    <<{"health", "medical", "fitness"}, "health_fitness">>,
    <<{"travel", "hotel", "flight"}, "travel_accommodation">>,
    <<{"shopping", "order", "product"}, "shopping_orders">>,
    <<{"social", "chat", "wechat"}, "social_chat">>,
    <<{"entertainment", "game", "music"}, "entertainment_games">>,
    <<{"life", "daily", "family"}, "daily_life">> >>

\* TongyiAnalyzer._smart_categorize (OpenAIAnalyzer's is the same text)
smart_categorize(file_info) ==
    LET name == Lower(file_info.name)
        hit(k) == \E kw \in KeywordGroups[k][1] : Contains(name, kw)
        extension == Lower(file_info.extension)
    IN  IF \E k \in 1..Len(KeywordGroups) : hit(k)
        THEN KeywordGroups[CHOOSE k \in 1..Len(KeywordGroups) :
                               hit(k) /\ \A j \in 1..(k - 1) : ~hit(j)][2]
        ELSE IF file_info.file_type = "image" THEN "images_photos"
        ELSE IF file_info.file_type = "video" THEN "videos"
        ELSE IF file_info.file_type = "audio" THEN "audio_recordings"
        ELSE IF file_info.file_type = "document"
             THEN IF extension \in {".pdf", ".doc", ".docx"} THEN "documents"
                  ELSE IF extension \in {".xls", ".xlsx", ".csv"} THEN "data_spreadsheets"
                  ELSE "documents"
        ELSE IF file_info.file_type = "archive" THEN "archives"
        ELSE "other_files"

\* The bucket label a handler computes for a descriptor (by_content: the
\* category the analyzer returned).
BucketKey(method, file_info) ==
    CASE method = "by_type"    -> TypeKey(file_info)
      [] method = "by_time"    -> YearMonth(file_info)
      [] method = "by_size"    -> SizeCategory(file_info)
      [] method = "by_chat"    -> extract_chat_object(file_info.path)
      [] method = "by_content" -> smart_categorize(file_info)

\* os.path.join(target_dir, folder, chinese_dir_name); by_time uses the label itself
BucketDir(target, method, key) ==
    target \o <<MethodFolder(method),
                IF method = "by_time" THEN key ELSE get_chinese_name(key)>>

\* -------------------------------------------------- _move_or_copy_file
\* The probe without its loop: the counter's first name, free or not.
ProbeNoLoop(disk, ds, dir, base, ext, counter) ==
    Join(dir, base \o "_" \o ToString(counter) \o ext)

RECURSIVE Probe(_, _, _, _, _, _)
\* while os.path.exists(destination): destination = f"{base}_{counter}{ext}"
Probe(disk, ds, dir, base, ext, counter) ==
    LET candidate == Join(dir, base \o "_" \o ToString(counter) \o ext)
    IN  IF Exists(disk, ds, candidate)
        THEN Probe(disk, ds, dir, base, ext, counter + 1)
        ELSE candidate

\* ResolveDestination that tests nothing: the destination as given.
ResolveDestinationBlind(disk, ds, destination) == destination

\* ResolveDestination with "if" for "while": one suffix is tried, not the next.
ResolveDestinationOnce(disk, ds, destination) ==
    IF Exists(disk, ds, destination)
    THEN LET split == SplitExt(BaseName(destination))
         IN  Join(DirName(destination), split[1] \o "_1" \o split[2])
    ELSE destination

\* ResolveDestination with the counter started at 2.
ResolveDestinationFromTwo(disk, ds, destination) ==
    IF Exists(disk, ds, destination)
    THEN LET split == SplitExt(BaseName(destination))
         IN  Probe(disk, ds, DirName(destination), split[1], split[2], 2)
    ELSE destination

\* The path _move_or_copy_file writes to: the destination itself when it is
\* free, else the first free base_1, base_2, ... (base and ext are split once,
\* from the destination as given).
ResolveDestination(disk, ds, destination) ==
    IF Exists(disk, ds, destination)
    THEN LET split == SplitExt(BaseName(destination))
         IN  Probe(disk, ds, DirName(destination), split[1], split[2], 1)
    ELSE destination

\* What a copy that broke off leaves at the destination.
Truncated(file) == [file EXCEPT !.id = 0, !.size = 0]

\* How shutil.copy2 / shutil.move can end:
\*   ok       the file is at the destination (and, moved, gone from the source)
\*   denied   an exception before anything was written
\*   partial  an exception while the content was copied (disk full); a move
\*            across volumes copies, then unlinks the source
\*   late     an exception after the content was copied (copystat, or the
\*            unlink of the source of a move across volumes)
Outcomes == {"ok", "denied", "partial", "late"}

\* Move with the source unlinked before the copy: a failed move loses the file.
MoveUnlinkFirst(disk, source, destination, outcome) ==
    CASE outcome = "ok"      -> Put(Remove(disk, source), destination, disk[source])
      [] outcome = "denied"  -> Remove(disk, source)
      [] outcome = "partial" -> Put(Remove(disk, source), destination, Truncated(disk[source]))
      [] outcome = "late"    -> Put(Remove(disk, source), destination, disk[source])

\* shutil.move(source, destination)
Move(disk, source, destination, outcome) ==
    CASE outcome = "ok"      -> Put(Remove(disk, source), destination, disk[source])
      [] outcome = "denied"  -> disk
      [] outcome = "partial" -> Put(disk, destination, Truncated(disk[source]))
      [] outcome = "late"    -> Put(disk, destination, disk[source])

\* Copy2 that removes the source once the copy is made, as a move does.
Copy2AsMove(disk, source, destination, outcome) ==
    Move(disk, source, destination, outcome)

\* shutil.copy2(source, destination)
Copy2(disk, source, destination, outcome) ==
    CASE outcome = "ok"      -> Put(disk, destination, disk[source])
      [] outcome = "denied"  -> disk
      [] outcome = "partial" -> Put(disk, destination, Truncated(disk[source]))
      [] outcome = "late"    -> Put(disk, destination, disk[source])

\* _move_or_copy_file(source, destination, keep_originals) under the given
\* outcome of the copy or move: the disk afterwards, the value returned and the
\* path written. A source that is gone raises before anything is written.
move_or_copy_file(disk, ds, source, destination, keep, outcome) ==
    LET dest == ResolveDestination(disk, ds, destination)
    IN  IF source \notin DOMAIN disk
        THEN [disk |-> disk, ok |-> FALSE, dest |-> dest]
        ELSE [disk |-> IF keep THEN Copy2(disk, source, dest, outcome)
                       ELSE Move(disk, source, dest, outcome),
              ok   |-> outcome = "ok",
              dest |-> dest]

\* ---------------------------------------------------------------- report
RECURSIVE SumSize(_)
SumSize(fseq) == IF fseq = <<>> THEN 0 ELSE Head(fseq).size + SumSize(Tail(fseq))

OfType(fseq, t) == SelectSeq(fseq, LAMBDA f : f.file_type = t)

\* list(organized_files.keys())
Keys(plans) == [k \in 1..Len(plans) |-> plans[k].method]

\* A report that counts the relocation records of the first plan.
ReportOfMoved(plans, all_files) ==
    [total_files          |-> IF plans # <<>> /\ "moved_files" \in DOMAIN plans[1]
                              THEN Len(plans[1].moved_files) ELSE 0,
     total_size           |-> SumSize(all_files),
     type_statistics      |->
         [t \in {all_files[k].file_type : k \in 1..Len(all_files)} |->
             [count |-> Len(OfType(all_files, t)), size |-> SumSize(OfType(all_files, t))]],
     organization_methods |-> Keys(plans)]

\* _generate_report(organized_files, all_files), without the timestamp
generate_report(plans, all_files) ==
    [total_files          |-> Len(all_files),
     total_size           |-> SumSize(all_files),
     type_statistics      |->
         [t \in {all_files[k].file_type : k \in 1..Len(all_files)} |->
             [count |-> Len(OfType(all_files, t)), size |-> SumSize(OfType(all_files, t))]],
     organization_methods |-> Keys(plans)]

\* organized_files[method] = result: a dict keeps the place of a key it has
DictSet(plans, plan) ==
    IF \E k \in 1..Len(plans) : plans[k].method = plan.method
    THEN [k \in 1..Len(plans) |-> IF plans[k].method = plan.method THEN plan ELSE plans[k]]
    ELSE Append(plans, plan)

HasPlan(plans, method) == \E k \in 1..Len(plans) : plans[k].method = method
PlanOf(plans, method) == plans[CHOOSE k \in 1..Len(plans) : plans[k].method = method]

\* ------------------------------------------------------------ environment
Mar2024 == [year |-> 2024, month |-> 3]
Nov2023 == [year |-> 2023, month |-> 11]

\* The files the source tree may hold, in the order os.walk lists them.
Tree == <<
    [path |-> <<"src", "a", "photo.png">>,
     file |-> [id |-> 1, size |-> 500, mtime |-> Mar2024, mime |-> "image/png"]],
    [path |-> <<"src", "a", "photo_1.png">>,
     file |-> [id |-> 2, size |-> 500, mtime |-> Mar2024, mime |-> "image/png"]],
    [path |-> <<"src", "b", "photo.png">>,
     file |-> [id |-> 3, size |-> 2048, mtime |-> Mar2024, mime |-> "image/png"]],
    [path |-> <<"src", "msg_01", "photo.png">>,
     file |-> [id |-> 4, size |-> 500, mtime |-> Nov2023, mime |-> "image/png"]] >>

\* A file an earlier run left under the target root.
Leftover(target) ==
    [path |-> BucketDir(target, "by_type", "png") \o <<"photo.png">>,
     file |-> [id |-> 9, size |-> 2048, mtime |-> Nov2023, mime |-> "image/png"]]

\* The target root: beside the source root, or below it.
Outside == <<"out">>
Inside == <<"src", "out">>

\* The strategy lists organize_files is called with ("by_name" is no strategy).
Requests == {
    <<"by_type">>, <<"by_chat">>, <<"by_type", "by_size">>,
    <<"by_content", "by_type">>, <<"by_name", "by_time">> }

NoResult == [returned |-> FALSE]
\* No second run of _move_or_copy_file beside the one of organize_files.
NoWorkers == [at |-> <<>>, log |-> <<>>]
\* The main window after FileExtractorGUI.__init__: both path fields empty, no
\* strategy ticked, the scan button enabled (the default of a QPushButton),
\* the organize button disabled, no thread started.
Constructed ==
    [source_path_edit |-> "", target_path_edit |-> "", checked |-> FALSE,
     scan_btn |-> TRUE, organize_btn |-> FALSE,
     scan_threads |-> <<>>, organize_threads |-> 0, signals |-> <<>>]
NoCall == [fn |-> "none"]
NoLocals == [directories |-> <<>>, moved_files |-> <<>>]

\* print(text) for the log lines of organize_files, all of which begin with an
\* emoji: utf-8 encodes it, gbk (a redirected stdout on Chinese Windows)
\* raises UnicodeEncodeError.
Encodings == {"utf-8", "gbk"}
PrintRaises(encoding) == encoding # "utf-8"

\* organize_files has been called and has not run yet.
InitRun ==
    /\ pc = "start"
    /\ call = NoCall
    /\ run = 1
    /\ files = <<>>
    /\ mi = 1
    /\ fi = 1
    /\ cur = NoLocals
    /\ organized_files = <<>>
    /\ result = NoResult
    /\ placed = <<>>
    /\ skipped = {}
    /\ vanished = {}
    /\ unread = {}
    /\ made = <<>>
    /\ faults = 0
    /\ workers = NoWorkers
    /\ gui = Constructed

\* The disk holding the chosen files of Tree and, with leftover, the target
\* root with one file of an earlier by_type run.
InitDisk(present, target, leftover) ==
    /\ source_dir = <<"src">>
    /\ target_dir = target
    /\ fs = [p \in {Tree[k].path : k \in present}
                   \cup (IF leftover THEN {Leftover(target).path} ELSE {}) |->
                IF leftover /\ p = Leftover(target).path THEN Leftover(target).file
                ELSE Tree[CHOOSE k \in present : Tree[k].path = p].file]
    /\ dirs = IF leftover THEN Parents(DirName(Leftover(target).path)) ELSE {}
    /\ fs0 = fs
    /\ dirs0 = dirs

Init ==
    /\ \E present \in SUBSET (1..Len(Tree)) :
         /\ Cardinality(present) <= MaxFiles
         /\ \E setup \in {<<Outside, FALSE>>, <<Outside, TRUE>>, <<Inside, TRUE>>} :
                InitDisk(present, setup[1], setup[2])
    /\ methods \in Requests
    /\ keep_originals \in BOOLEAN
    /\ ai_analyzer \in (IF \E k \in 1..Len(methods) : methods[k] = "by_content"
                        THEN BOOLEAN ELSE {FALSE})
    /\ stdout \in Encodings
    /\ InitRun

\* ------------------------------------------------------------ organize_files
\* The first print of the try block raises, the handler (except Exception)
\* prints its own line with an emoji before it returns, and that print raises
\* outside any try: the exception leaves organize_files.
ExceptionEscapes ==
    /\ pc = "start"
    /\ PrintRaises(stdout)
    /\ pc' = "raised"
    /\ UNCHANGED <<inputs, fs, dirs, files, mi, fi, cur, organized_files, result,
                   placed, skipped, vanished, unread, made, faults>>

\* except Exception as e: return {'success': False, 'message': str(e)}; what
\* names the call that raised.
Raised(what) == [success |-> FALSE, message |-> what]

\* Path(target_dir).mkdir(parents=True, exist_ok=True); a root that is there
\* is left alone, one that cannot be created raises.
EnsureTargetDir ==
    /\ pc = "start"
    /\ ~PrintRaises(stdout)
    /\ \E ok \in BOOLEAN :
         IF ok
         THEN /\ dirs' = dirs \cup Parents(target_dir)
              /\ pc' = "scan"
              /\ UNCHANGED <<result, faults>>
         ELSE /\ target_dir \notin dirs
              /\ faults < MaxFaults
              /\ faults' = faults + 1
              /\ result' = Raised("mkdir target_dir")
              /\ pc' = "done"
              /\ UNCHANGED dirs
    /\ UNCHANGED <<inputs, fs, files, mi, fi, cur, organized_files, placed,
                   skipped, vanished, unread, made>>

\* The orders in which os.walk can list the regular files below root: the
\* files of Tree in their order, the target's own before or after them.
WalkOrders(disk, root, target) ==
    LET tree == SelectSeq([k \in 1..Len(Tree) |-> Tree[k].path],
                          LAMBDA p : p \in DOMAIN disk /\ IsPrefix(root, p))
        own  == IF Leftover(target).path \in DOMAIN disk
                   /\ IsPrefix(root, Leftover(target).path)
                THEN <<Leftover(target).path>> ELSE <<>>
    IN  {tree \o own, own \o tree}

\* A scan that the first unreadable file ends.
ScanUntilUnreadable(disk, order, unreadable) ==
    LET stop == IF \E k \in 1..Len(order) : order[k] \in unreadable
                THEN CHOOSE k \in 1..Len(order) :
                         /\ order[k] \in unreadable
                         /\ \A j \in 1..(k - 1) : order[j] \notin unreadable
                ELSE Len(order) + 1
    IN  [k \in 1..(stop - 1) |-> get_file_info(disk, order[k])]

\* scan_directory(directory): the descriptors of the files walked, without
\* those get_file_info could not stat or sniff (it returns {} for them).
scan_directory(disk, order, unreadable) ==
    LET readable == SelectSeq(order, LAMBDA p : p \notin unreadable)
    IN  [k \in 1..Len(readable) |-> get_file_info(disk, readable[k])]

\* The scan without the test "if not files".
ScanSourceUnchecked ==
    /\ pc = "scan"
    /\ \E order \in WalkOrders(fs, source_dir, target_dir) :
       \E unreadable \in SUBSET {order[k] : k \in 1..Len(order)} :
         /\ faults + Cardinality(unreadable) <= MaxFaults
         /\ faults' = faults + Cardinality(unreadable)
         /\ files' = scan_directory(fs, order, unreadable)
         /\ unread' = unreadable
         /\ pc' = "dispatch"
         /\ UNCHANGED result
    /\ UNCHANGED <<inputs, fs, dirs, mi, fi, cur, organized_files, placed,
                   skipped, vanished, made>>

\* files = analyzer.scan_directory(source_dir); if not files: return failure
ScanSource ==
    /\ pc = "scan"
    /\ \E order \in WalkOrders(fs, source_dir, target_dir) :
       \E unreadable \in SUBSET {order[k] : k \in 1..Len(order)} :
         /\ faults + Cardinality(unreadable) <= MaxFaults
         /\ faults' = faults + Cardinality(unreadable)
         /\ files' = scan_directory(fs, order, unreadable)
         /\ unread' = unreadable
         /\ IF files' = <<>>
            THEN /\ result' = [success |-> FALSE, message |-> "MeiYouZhaoDaoWenJian"]
                 /\ pc' = "done"
            ELSE /\ pc' = "dispatch"
                 /\ UNCHANGED result
    /\ UNCHANGED <<inputs, fs, dirs, mi, fi, cur, organized_files, placed,
                   skipped, vanished, made>>

\* A dispatch in which by_content without an analyzer raises.
ApplyMethodRaising ==
    /\ pc = "dispatch"
    /\ mi <= Len(methods)
    /\ LET method == methods[mi]
       IN  IF method \notin organization_methods
           THEN /\ mi' = mi + 1
                /\ UNCHANGED <<pc, fi, cur, organized_files, result>>
           ELSE IF method = "by_content" /\ ~ai_analyzer
           THEN /\ result' = Raised("XuYaoAIFenXiQi")
                /\ pc' = "done"
                /\ UNCHANGED <<mi, fi, cur, organized_files>>
           ELSE /\ pc' = "loop"
                /\ fi' = 1
                /\ cur' = NoLocals
                /\ UNCHANGED <<mi, organized_files, result>>
    /\ UNCHANGED <<inputs, fs, dirs, files, placed, skipped, vanished, unread, made, faults>>

\* A dispatch that looks every requested name up and raises for an unknown one.
ApplyMethodStrict ==
    /\ pc = "dispatch"
    /\ mi <= Len(methods)
    /\ LET method == methods[mi]
       IN  IF method \notin organization_methods
           THEN /\ result' = Raised(method)
                /\ pc' = "done"
                /\ UNCHANGED <<mi, fi, cur, organized_files>>
           ELSE IF method = "by_content" /\ ~ai_analyzer
           THEN /\ organized_files' =
                      DictSet(organized_files,
                              [method |-> "by_content", error |-> "XuYaoAIFenXiQi"])
                /\ mi' = mi + 1
                /\ UNCHANGED <<pc, fi, cur, result>>
           ELSE /\ pc' = "loop"
                /\ fi' = 1
                /\ cur' = NoLocals
                /\ UNCHANGED <<mi, organized_files, result>>
    /\ UNCHANGED <<inputs, fs, dirs, files, placed, skipped, vanished, unread, made, faults>>

\* for method in methods: a strategy that is not known is passed over; the
\* handler of by_content returns an error plan at once without an analyzer;
\* any other handler starts its loop over files.
ApplyMethod ==
    /\ pc = "dispatch"
    /\ mi <= Len(methods)
    /\ LET method == methods[mi]
       IN  IF method \notin organization_methods
           THEN /\ mi' = mi + 1
                /\ UNCHANGED <<pc, fi, cur, organized_files>>
           ELSE IF method = "by_content" /\ ~ai_analyzer
           THEN /\ organized_files' =
                      DictSet(organized_files,
                              [method |-> "by_content", error |-> "XuYaoAIFenXiQi"])
                /\ mi' = mi + 1
                /\ UNCHANGED <<pc, fi, cur>>
           ELSE /\ pc' = "loop"
                /\ fi' = 1
                /\ cur' = NoLocals
                /\ UNCHANGED <<mi, organized_files>>
    /\ UNCHANGED <<inputs, fs, dirs, files, result, placed, skipped, vanished, unread, made, faults>>

\* How the relocation of one descriptor can end: the ends of the copy or move,
\* a bucket directory that cannot be created (mkdir), a classifier that signals
\* failure (ai_false) or raises (ai_raise).
Endings == Outcomes \cup {"mkdir", "ai_false", "ai_raise"}

\* Path(bucket_dir).mkdir(parents=True, exist_ok=True) raises when a regular
\* file stands where a directory is needed.
Blocked(disk, dir) == \E p \in Parents(dir) : p \in DOMAIN disk

\* A bucket directory made at every descriptor.
AlwaysNewBucket(locals, dir) == TRUE

\* if type_dir not in type_dirs: the handler has no entry for the directory
\* yet, so it adds one and calls mkdir (183-185, 231-233, 309-311, 344-346,
\* 266-268).
IsNewBucket(locals, dir) == dir \notin DOMAIN locals.directories

\* The handler's locals after the descriptor was handled: a new bucket
\* directory gets its entry, a relocation that returned True its record and
\* its file name.
Record(locals, dir, file_info, key, ok) ==
    LET names == IF dir \in DOMAIN locals.directories
                 THEN locals.directories[dir] ELSE <<>>
    IN  [directories |-> Put(locals.directories, dir,
                             IF ok THEN Append(names, file_info.name) ELSE names),
         moved_files |-> IF ok
                         THEN Append(locals.moved_files,
                                     [original |-> file_info.path,
                                      new      |-> Join(dir, file_info.name),
                                      key      |-> key])
                         ELSE locals.moved_files]

\* One pass of the loop "for file_info in files" of the running handler
\* (_organize_by_type, _by_time, _by_size, _by_chat, _by_content).
OrganizeFile ==
    /\ pc = "loop"
    /\ fi <= Len(files)
    /\ \E ending \in Endings :
       \E key \in {BucketKey(methods[mi], files[fi])} :
       \E dir \in {BucketDir(target_dir, methods[mi], key)} :
         LET method    == methods[mi]
             file_info == files[fi]
             isNew     == IsNewBucket(cur, dir)
             after     == IF isNew THEN dirs \cup Parents(dir) ELSE dirs
         IN  /\ ending # "ok" => faults < MaxFaults
             /\ ending \in {"ai_false", "ai_raise"} => method = "by_content"
             /\ ending = "mkdir" => isNew /\ dir \notin dirs /\ ~Blocked(fs, dir)
             /\ ending \in Outcomes \ {"ok"} =>
                    file_info.path \in DOMAIN fs /\ ~(isNew /\ Blocked(fs, dir))
             /\ faults' = IF ending = "ok" THEN faults ELSE faults + 1
             /\ IF ending = "ai_raise" \/ ending = "mkdir"
                   \/ (ending = "ok" /\ isNew /\ Blocked(fs, dir))
                THEN \* the exception leaves the handler and organize_files catches it
                     /\ result' = Raised(IF ending = "ai_raise"
                                          THEN "analyze_file_content"
                                          ELSE "mkdir bucket")
                     /\ pc' = "done"
                     /\ UNCHANGED <<fs, dirs, fi, cur, placed, skipped, made>>
                ELSE IF ending = "ai_false"
                THEN \* if ai_result.get('ai_analysis'): is false, nothing is done
                     /\ fi' = fi + 1
                     /\ skipped' = skipped \cup {[mi |-> mi, fi |-> fi, why |-> "classifier",
                                                     dir |-> <<>>]}
                     /\ UNCHANGED <<fs, dirs, cur, placed, pc, result, made>>
                ELSE \E r \in {move_or_copy_file(fs, after, file_info.path,
                                                 Join(dir, file_info.name), keep_originals,
                                                 ending)} :
                     /\ fs' = r.disk
                     /\ dirs' = after
                     /\ made' = IF isNew THEN Append(made, <<mi, dir>>) ELSE made
                     /\ cur' = Record(cur, dir, file_info, key, r.ok)
                     /\ placed' = IF r.ok
                                  THEN Append(placed, [mi |-> mi, fi |-> fi,
                                                       source |-> file_info.path,
                                                       dest |-> r.dest,
                                                       id |-> fs[file_info.path].id])
                                  ELSE placed
                     /\ skipped' = IF r.ok THEN skipped
                                   ELSE skipped \cup {[mi |-> mi, fi |-> fi,
                                                       why |-> "relocation",
                                                       dir |-> dir]}
                     /\ fi' = fi + 1
                     /\ UNCHANGED <<pc, result>>
    /\ UNCHANGED <<inputs, files, mi, organized_files, vanished, unread>>

\* The handler's loop is over: return {'method', 'directories', 'moved_files'},
\* which organize_files stores under the method.
FinishMethod ==
    /\ pc = "loop"
    /\ fi > Len(files)
    /\ organized_files' = DictSet(organized_files,
                                  [method      |-> methods[mi],
                                   directories |-> cur.directories,
                                   moved_files |-> cur.moved_files])
    /\ mi' = mi + 1
    /\ pc' = "dispatch"
    /\ cur' = NoLocals
    /\ UNCHANGED <<inputs, fs, dirs, files, fi, result, placed, skipped, vanished, unread, made, faults>>

\* report = self._generate_report(organized_files, files); return final_result
Finish ==
    /\ pc = "dispatch"
    /\ mi > Len(methods)
    /\ result' = [success         |-> TRUE,
                  organized_files |-> organized_files,
                  report          |-> generate_report(organized_files, files),
                  total_files     |-> Len(files)]
    /\ pc' = "done"
    /\ UNCHANGED <<inputs, fs, dirs, files, mi, fi, cur, organized_files, placed,
                   skipped, vanished, unread, made, faults>>

\* Another process removes the scanned file the running handler is about to
\* relocate.
SourceVanishes ==
    /\ pc = "loop"
    /\ fi <= Len(files)
    /\ faults < MaxFaults
    /\ files[fi].path \in DOMAIN fs
    /\ fs[files[fi].path] = fs0[files[fi].path]
    /\ fs' = Remove(fs, files[fi].path)
    /\ vanished' = vanished \cup {files[fi].path}
    /\ faults' = faults + 1
    /\ UNCHANGED <<inputs, dirs, pc, files, mi, fi, cur, organized_files, result,
                   placed, skipped, unread, made>>

Next ==
    \/ ExceptionEscapes
    \/ EnsureTargetDir
    \/ ScanSource
    \/ ApplyMethod
    \/ OrganizeFile
    \/ FinishMethod
    \/ Finish
    \/ SourceVanishes

Spec == Init /\ [][Next]_vars

\* ------------------------------------------------------ a repeated run
\* The caller repeats a copy run that succeeded without any failure:
\* organize_files is called again with the same arguments on the disk the
\* first call left.
RunAgain ==
    /\ pc = "done"
    /\ run = 1
    /\ result.success
    /\ keep_originals
    /\ faults = 0
    /\ run' = 2
    /\ fs0' = fs
    /\ dirs0' = dirs
    /\ pc' = "start"
    /\ files' = <<>>
    /\ mi' = 1
    /\ fi' = 1
    /\ cur' = NoLocals
    /\ organized_files' = <<>>
    /\ result' = NoResult
    /\ placed' = <<>>
    /\ skipped' = {}
    /\ made' = <<>>
    /\ UNCHANGED <<source_dir, target_dir, methods, ai_analyzer, keep_originals, stdout,
                   call, fs, dirs, vanished, unread, faults, workers, gui>>

RerunNext ==
    \/ Next
    \/ RunAgain

Rerun == Init /\ [][RerunNext]_vars

\* ------------------------------------------- the functions on their own
\* Everything but call: no run of organize_files is under way.
organizer == <<source_dir, target_dir, methods, ai_analyzer, keep_originals, stdout,
               run, fs, dirs, pc, files, mi, fi, cur, organized_files, result, fs0, dirs0,
               placed, skipped, vanished, unread, made, faults, workers, gui>>

FunctionsInit ==
    /\ InitDisk({}, Outside, FALSE)
    /\ methods = <<"by_type">>
    /\ keep_originals = TRUE
    /\ ai_analyzer = FALSE
    /\ stdout = "utf-8"
    /\ InitRun

MiB == KiB * KiB

\* File sizes in bytes around the thresholds of _organize_by_size.
Sizes == {0, 1, 500, KiB - 1, KiB, KiB + 1, 2 * KiB,
          MiB - 1, MiB, MiB + 1, 10 * MiB - 1, 10 * MiB, 10 * MiB + 1,
          100 * MiB - 1, 100 * MiB, 100 * MiB + 1, 150 * 1000 * 1000}

\* _organize_by_size on a descriptor of the given size: its size_category
CallSizeCategory ==
    /\ \E size \in Sizes :
           call' = [fn |-> "size_category", arg |-> size,
                    out |-> SizeCategory([size |-> size])]
    /\ UNCHANGED organizer

\* File names with the extensions _normalize_extension merges, their targets,
\* upper case and no extension.
ExtNames == {"a.JPG", "b.jpg", "c.jpeg", "d.jpe", "e.tif", "f.tiff", "g.htm",
             "h.html", "i.PNG", "README"}

\* What python-magic can report for the first file.
Mimes == {"image/jpeg", "text/plain"}

\* _organize_by_type over two scanned files src/a/n1 and src/b/n2 under copy
\* policy: their descriptors, their ext_key and where they were written.
CallByType ==
    /\ \E n1 \in ExtNames, n2 \in ExtNames, m1 \in Mimes :
         LET p1   == <<"src", "a", n1>>
             p2   == <<"src", "b", n2>>
             disk == (p1 :> [id |-> 1, size |-> 2 * KiB, mtime |-> Mar2024, mime |-> m1])
                     @@ (p2 :> [id |-> 2, size |-> 2 * KiB, mtime |-> Mar2024,
                                mime |-> "image/jpeg"])
             d1   == get_file_info(disk, p1)
             d2   == get_file_info(disk, p2)
             dir1 == BucketDir(Outside, "by_type", TypeKey(d1))
             dir2 == BucketDir(Outside, "by_type", TypeKey(d2))
             r1   == move_or_copy_file(disk, Parents(dir1), p1, Join(dir1, n1), TRUE, "ok")
             r2   == move_or_copy_file(r1.disk, Parents(dir1) \cup Parents(dir2), p2,
                                       Join(dir2, n2), TRUE, "ok")
         IN  call' = [fn  |-> "by_type",
                      arg |-> [names |-> <<n1, n2>>, mime |-> m1],
                      out |-> [keys  |-> <<TypeKey(d1), TypeKey(d2)>>,
                               types |-> <<d1.file_type, d2.file_type>>,
                               dests |-> <<r1.dest, r2.dest>>]]
    /\ UNCHANGED organizer

\* Source paths with msg and chat directories, with other directories, and
\* with file names that themselves begin with msg or chat.
ChatPaths ==
    {<<"src", p[1], p[2]>> : p \in {"a", "msg_01", "chat_bob", "Msg", "wechat"}
                                   \X {"photo.png", "msg.txt", "chat_log.txt", "mychat.txt"}}
    \cup {<<"src", "msg_01", "chat_bob", "photo.png">>,
          <<"src", "a", "chat_bob", "msg.txt">>,
          <<"src", "photo.png">>, <<"src", "chat_log.txt">>,
          <<"home", "chatty", "src", "a", "photo.png">>}

\* _organize_by_chat on the descriptor of one path: its chat_object
CallByChat ==
    /\ \E path \in ChatPaths :
         LET disk == (path :> [id |-> 1, size |-> 500, mtime |-> Mar2024,
                               mime |-> "image/png"])
         IN  call' = [fn  |-> "by_chat",
                      arg |-> path,
                      out |-> BucketKey("by_chat", get_file_info(disk, path))]
    /\ UNCHANGED organizer

\* Line 80 of ai/ai_analyzer.py, in OpenAIAnalyzer._smart_categorize (its
\* ASCII keywords).
Line80 == "elif any(keyword in name for keyword in ['study', 'training', 'education']:"

\* The parentheses a line leaves open.
RECURSIVE OpenParentheses(_)
OpenParentheses(line) ==
    IF line = "" THEN 0
    ELSE (IF Head(line) = "(" THEN 1 ELSE IF Head(line) = ")" THEN -1 ELSE 0)
         + OpenParentheses(Tail(line))

\* import of ai.ai_analyzer: Python compiles the whole file first, and a
\* compound statement header whose colon comes inside an open parenthesis is
\* a SyntaxError.
AnalyzerCompiles == OpenParentheses(Line80) = 0

\* File names with keywords of several groups, of one group, and of none.
ClassifierNames == {"report_plan.txt", "workplan.doc", "photo_video.mp4",
                    "Market_Data.xlsx", "chat_game.png", "email.txt", "REPORT.PDF",
                    "holiday.png", "clip.mp4", "song.mp3", "notes.txt", "table.csv",
                    "sheet.xls", "bundle.zip", "blob.bin"}

ClassifierMimes == {"image/png", "text/plain", "application/octet-stream"}

\* TongyiAnalyzer (or OpenAIAnalyzer) from ai.ai_analyzer classifies the
\* descriptor of one file: the import comes first.
CallSmartCategorize ==
    /\ \E name \in ClassifierNames, mime \in ClassifierMimes :
         LET path == <<"src", name>>
             disk == (path :> [id |-> 1, size |-> 500, mtime |-> Mar2024, mime |-> mime])
             file_info == get_file_info(disk, path)
         IN  call' = [fn  |-> "smart_categorize",
                      arg |-> file_info,
                      out |-> IF AnalyzerCompiles THEN smart_categorize(file_info)
                              ELSE "SyntaxError"]
    /\ UNCHANGED organizer

FunctionsNext ==
    \/ CallSizeCategory
    \/ CallByType
    \/ CallByChat
    \/ CallSmartCategorize

Functions == FunctionsInit /\ [][FunctionsNext]_vars

\* ================================================================= claims
Done == pc = "done"
Succeeded == pc = "done" /\ result.success
Failed(what) == pc = "done" /\ ~result.success /\ result.message = what
NoFilesFound == "MeiYouZhaoDaoWenJian"

UnderTarget(path) == IsPrefix(target_dir, path)
UnderSource(path) == IsPrefix(source_dir, path)
Requested(method) == \E k \in 1..Len(methods) : methods[k] = method
\* the paths that hold the content the file at path had when the run began
HoldersOf(path) == {q \in DOMAIN fs : fs[q].id = fs0[path].id}

\* C1: in one sequential run no two relocated files end up at the same
\* destination path: the paths _move_or_copy_file wrote to are pairwise
\* distinct, also for files of one name placed in one directory.
C1_NoSharedDestination ==
    \A i, j \in 1..Len(placed) : i # j => placed[i].dest # placed[j].dest

\* C1 witness: the run is over and two files of one name were placed in one
\* destination directory.
C1_Witness ==
    /\ Done
    /\ \E i, j \in 1..Len(placed) :
         /\ i < j
         /\ BaseName(placed[i].source) = BaseName(placed[j].source)
         /\ DirName(placed[i].dest) = DirName(placed[j].dest)

\* C2: under copy policy (keep_originals) the run never mutates the source
\* tree: every file below the source root that was there when the run began,
\* and that no other process removed, is at its path with its size (and
\* content), whatever strategies ran and whatever relocations failed.
C2_CopyKeepsSources ==
    keep_originals =>
        \A p \in DOMAIN fs0 :
            UnderSource(p) /\ p \notin vanished =>
                p \in DOMAIN fs /\ fs[p].size = fs0[p].size /\ fs[p].id = fs0[p].id

\* C2 witness: a copy run is over, it placed a file and a relocation failed.
C2_Witness ==
    /\ Succeeded
    /\ keep_originals
    /\ placed # <<>>
    /\ \E s \in skipped : s.why = "relocation"

\* C3: under move policy (not keep_originals), for every file for which a
\* relocation record was produced, after the run the source path no longer
\* exists and exactly one path under the target holds that file's content.
C3_MoveRecordsConserve ==
    Done /\ ~keep_originals =>
        \A i \in 1..Len(placed) :
            /\ placed[i].source \notin DOMAIN fs
            /\ Cardinality({q \in DOMAIN fs : UnderTarget(q) /\ fs[q].id = placed[i].id}) = 1

\* C4: under move policy a scanned file leaves its source path exactly when a
\* move of it returned True, a file whose relocation failed stays where it was,
\* and no scanned file is lost: its content is at the source path or at a
\* destination path (files another process removed aside).
C4_MoveRemovesOnSuccessOnly ==
    ~keep_originals =>
        \A k \in 1..Len(files) :
            LET p == files[k].path
            IN  p \notin vanished =>
                    /\ (p \in HoldersOf(p)) <=>
                           ~(\E i \in 1..Len(placed) :
                                 placed[i].source = p /\ placed[i].id = fs0[p].id)
                    /\ HoldersOf(p) # {}
                    /\ \A q \in HoldersOf(p) : q = p \/ UnderTarget(q)

\* C4 witness: a move run is over in which one file was moved to the target and
\* the move of another failed, leaving it at its source path.
C4_Witness ==
    /\ Succeeded
    /\ ~keep_originals
    /\ \E i \in 1..Len(placed) : placed[i].source \notin DOMAIN fs
    /\ \E s \in skipped :
         /\ s.why = "relocation"
         /\ files[s.fi].path \notin vanished
         /\ files[s.fi].path \in HoldersOf(files[s.fi].path)

\* The directory the handler of methods[m] chooses for a descriptor.
DirFor(m, file_info) ==
    BucketDir(target_dir, methods[m], BucketKey(methods[m], file_info))

\* The writes of pass m that placed a file named name in directory dir, in
\* processing order.
Group(m, name, dir) ==
    SelectSeq(placed, LAMBDA e : /\ e.mi = m
                                 /\ BaseName(e.source) = name
                                 /\ DirName(e.dest) = dir)

\* name with _k before its extension
Suffixed(name, k) ==
    SplitExt(name)[1] \o "_" \o ToString(k) \o SplitExt(name)[2]

\* The case of C5: dir held no file when the run began, and in pass m no file
\* named name that belongs in dir failed to be relocated.
CleanGroup(m, name, dir) ==
    /\ \A q \in DOMAIN fs0 : DirName(q) # dir
    /\ \A s \in skipped :
           ~(/\ s.mi = m
             /\ files[s.fi].name = name
             /\ IF s.why = "relocation" THEN s.dir = dir
                ELSE DirFor(m, files[s.fi]) = dir)

\* Every group of the run so far: <<pass, file name, directory>>.
Groups ==
    {<<placed[i].mi, BaseName(placed[i].source), DirName(placed[i].dest)>> :
        i \in 1..Len(placed)}

Numbered(name, k) ==
    IF k = 0 THEN name ELSE Suffixed(name, k)

\* The k for which dir holds a file named Numbered(name, k) that no write of
\* the group produced.
TakenByOthers(m, name, dir) ==
    {k \in 0..(Len(files) + 1) :
        /\ Join(dir, Numbered(name, k)) \in DOMAIN fs
        /\ \A j \in 1..Len(Group(m, name, dir)) :
               Group(m, name, dir)[j].dest # Join(dir, Numbered(name, k))}

RECURSIVE ScannedSize(_)
ScannedSize(k) ==
    IF k = 0 THEN 0 ELSE fs0[files[k].path].size + ScannedSize(k - 1)

Recognized(m) == methods[m] \in organization_methods

\* C6: the report of a successful run counts the scanned descriptors and sums
\* their sizes whatever was relocated, and is made after every requested
\* strategy was handled: it lists the plan of every recognized one.
C6_ReportDescribesScan ==
    Succeeded =>
        /\ result.report.total_files = Len(files)
        /\ result.report.total_size = ScannedSize(Len(files))
        /\ result.total_files = Len(files)
        /\ mi = Len(methods) + 1
        /\ result.report.organization_methods = Keys(organized_files)
        /\ \A m \in 1..Len(methods) :
               Recognized(m) => HasPlan(result.organized_files, methods[m])

\* C6 witness: a successful run over two or more files in which a relocation
\* failed, so that fewer files were relocated than the report counts.
C6_Witness ==
    /\ Succeeded
    /\ Len(files) >= 2
    /\ \E s \in skipped : s.why = "relocation"
    /\ \E k \in 1..Len(result.organized_files) :
           /\ "moved_files" \in DOMAIN result.organized_files[k]
           /\ Len(result.organized_files[k].moved_files) < result.report.total_files

\* C7: when the scan yields no descriptor, organize_files returns the failure
\* "no files found", runs no strategy, relocates nothing and creates no
\* directory other than the target root (with its parents).
C7_NoFilesIsFailure ==
    (pc \notin {"start", "scan", "raised"} /\ files = <<>> /\ target_dir \in dirs) =>
        /\ Failed(NoFilesFound)
        /\ organized_files = <<>>
        /\ cur = NoLocals
        /\ placed = <<>>
        /\ fs = fs0
        /\ dirs = dirs0 \cup Parents(target_dir)

\* C7 witness: a run whose scan found nothing has returned the failure after
\* creating the target root.
C7_Witness ==
    /\ Failed(NoFilesFound)
    /\ files = <<>>
    /\ target_dir \in dirs \ dirs0

\* C8 as claimed: a failure while one file is relocated never aborts the run.
\* Once files were scanned, the run ends with success (the classifier of
\* by_content raising is left aside here), whatever failed for single files.
C8_FailuresNeverAbort ==
    (Done /\ files # <<>> /\ ~Failed("analyze_file_content")) => result.success

\* C9 as claimed: no exception leaves organize_files; it ends by returning a
\* result with a boolean success, a message when it failed and the report
\* when it succeeded.
C9_NoExceptionEscapes ==
    /\ pc # "raised"
    /\ pc = "done" =>
           /\ result.success \in BOOLEAN
           /\ ~result.success => "message" \in DOMAIN result /\ result.message # ""
           /\ result.success => "report" \in DOMAIN result

ErrorPlan == [method |-> "by_content", error |-> "XuYaoAIFenXiQi"]

\* C10: by_content requested without a classifier relocates no file and its
\* plan is the error entry; when nothing fails in the environment the run
\* succeeds and every other recognized strategy has a regular plan and has
\* relocated files.
C10_OnlyByContentDisabled ==
    (Requested("by_content") /\ ~ai_analyzer) =>
        /\ \A i \in 1..Len(placed) : methods[placed[i].mi] # "by_content"
        /\ \A d \in dirs : ~IsPrefix(Join(target_dir, MethodFolder("by_content")), d)
        /\ HasPlan(organized_files, "by_content") =>
               PlanOf(organized_files, "by_content") = ErrorPlan
        /\ (Done /\ files # <<>> /\ faults = 0) =>
               /\ result.success
               /\ PlanOf(result.organized_files, "by_content") = ErrorPlan
               /\ \A m \in 1..Len(methods) :
                      (Recognized(m) /\ methods[m] # "by_content") =>
                          /\ "moved_files" \in DOMAIN PlanOf(result.organized_files, methods[m])
                          /\ \E i \in 1..Len(placed) : placed[i].mi = m

\* C10 witness: a successful run of by_content and by_type without a
\* classifier holds the error plan and has relocated files by type.
C10_Witness ==
    /\ Succeeded
    /\ Requested("by_content") /\ ~ai_analyzer
    /\ PlanOf(result.organized_files, "by_content") = ErrorPlan
    /\ \E i \in 1..Len(placed) : methods[placed[i].mi] = "by_type"
\* The bucket directory of by_content for files of unknown category.
UnknownContentDir == BucketDir(target_dir, "by_content", "unknown")

\* C11 as claimed: a file for which the classifier signals failure
\* (ai_analysis false) is relocated by by_content into the unknown bucket.
C11_ClassifierFailureToUnknown ==
    \A s \in skipped :
        s.why = "classifier" =>
            \E i \in 1..Len(placed) :
                /\ placed[i].mi = s.mi
                /\ placed[i].fi = s.fi
                /\ DirName(placed[i].dest) = UnknownContentDir

\* C12 as claimed: an error thrown by the classifier for one file does not
\* abort by_content or the run: no run ends as a failure carrying the
\* classifier's error.
C12_ClassifierErrorContinues ==
    ~Failed("analyze_file_content")
\* The recognized names of a request, in request order.
RecognizedOf(request) == SelectSeq(request, LAMBDA name : name \in organization_methods)

\* C13: a requested name that is not a known strategy relocates nothing, has
\* no plan and is not in the report's method list, and does not fail the run
\* (a run in which nothing fails in the environment succeeds); the recognized
\* names are applied one after the other in request order.
C13_OnlyRecognizedRun ==
    /\ \A m \in 1..Len(methods) :
           ~Recognized(m) =>
               /\ \A i \in 1..Len(placed) : placed[i].mi # m
               /\ \A s \in skipped : s.mi # m
               /\ ~HasPlan(organized_files, methods[m])
    /\ \A i, j \in 1..Len(placed) : i < j => placed[i].mi <= placed[j].mi
    /\ pc \in {"dispatch", "loop"} =>
           Keys(organized_files) = RecognizedOf(SubSeq(methods, 1, mi - 1))
    /\ Succeeded =>
           /\ Keys(result.organized_files) = RecognizedOf(methods)
           /\ result.report.organization_methods = RecognizedOf(methods)
    /\ (Done /\ files # <<>> /\ faults = 0) => result.success

\* C13 witness: a request naming by_name and by_time has succeeded, with
\* files relocated by time and by_time alone in the report.
C13_Witness ==
    /\ Succeeded
    /\ Requested("by_name")
    /\ result.report.organization_methods = <<"by_time">>
    /\ \E i \in 1..Len(placed) : methods[placed[i].mi] = "by_time"
SizeCalled == call.fn = "size_category"

\* C14: by_size names the bucket from the byte size alone: below 1 KiB tiny,
\* from 1 KiB below 1 MiB small, from 1 MiB below 10 MiB medium, from 10 MiB
\* below 100 MiB large, from 100 MiB huge; the five ranges are disjoint and
\* cover every size from 0.
C14_SizeBreakpoints ==
    SizeCalled =>
        /\ call.out = "tiny"   <=> (0 <= call.arg /\ call.arg < 1024)
        /\ call.out = "small"  <=> (1024 <= call.arg /\ call.arg < 1048576)
        /\ call.out = "medium" <=> (1048576 <= call.arg /\ call.arg < 10485760)
        /\ call.out = "large"  <=> (10485760 <= call.arg /\ call.arg < 104857600)
        /\ call.out = "huge"   <=> (104857600 <= call.arg)
        /\ call.out \in {"tiny", "small", "medium", "large", "huge"}
        /\ call.arg = 500 => call.out = "tiny"
        /\ call.arg = 150000000 => call.out = "huge"

\* C14 witness: a file of exactly 1024 bytes was put in small.
C14_Witness ==
    SizeCalled /\ call.arg = 1024 /\ call.out = "small"
\* The month as two digits.
Pad2(n) == (IF n < 10 THEN "0" ELSE "") \o ToString(n)

\* The writes of by_time.
ByTimePlaced == {i \in 1..Len(placed) : methods[placed[i].mi] = "by_time"}

\* The relocation records by_time has written so far.
ByTimeRecords ==
    IF pc = "loop" /\ methods[mi] = "by_time" THEN cur.moved_files
    ELSE IF HasPlan(organized_files, "by_time")
         THEN PlanOf(organized_files, "by_time").moved_files
         ELSE <<>>

ChineseYearMonth(t) == ToString(t.year) \o "nian" \o Pad2(t.month) \o "yue"

TypeCalled == call.fn = "by_type"

\* The extension of a file name in lower case without its dot, no_ext for none.
BareExtension(name) ==
    IF Suffix(name) = "" THEN "no_ext"
    ELSE Lower(SubSeq(Suffix(name), 2, Len(Suffix(name))))

\* C16 as claimed: the key of by_type is the lower-case extension without the
\* dot, with jpeg -> jpg, tif -> tiff and htm -> html merged and no_ext for no
\* extension.
C16_KeyMergesThree ==
    TypeCalled =>
        \A k \in 1..2 :
            call.out.keys[k] =
                CASE BareExtension(call.arg.names[k]) = "jpeg" -> "jpg"
                  [] BareExtension(call.arg.names[k]) = "tif"  -> "tiff"
                  [] BareExtension(call.arg.names[k]) = "htm"  -> "html"
                  [] OTHER -> BareExtension(call.arg.names[k])

\* C16 amended: the key is the lower-case extension without the dot, with
\* jpeg and jpe -> jpg, tif -> tiff and htm -> html merged and no_ext for no
\* extension, whatever the coarse file type; two files of different names and
\* one key are written to one directory under their own names.
C16_KeyFromExtension ==
    TypeCalled =>
        /\ \A k \in 1..2 :
               call.out.keys[k] =
                   CASE BareExtension(call.arg.names[k]) \in {"jpeg", "jpe"} -> "jpg"
                     [] BareExtension(call.arg.names[k]) = "tif"  -> "tiff"
                     [] BareExtension(call.arg.names[k]) = "htm"  -> "html"
                     [] OTHER -> BareExtension(call.arg.names[k])
        /\ (call.out.keys[1] = call.out.keys[2]
            /\ call.arg.names[1] # call.arg.names[2]) =>
               /\ DirName(call.out.dests[1]) = DirName(call.out.dests[2])
               /\ \A k \in 1..2 : BaseName(call.out.dests[k]) = call.arg.names[k]

\* C16 witness: a.JPG (sniffed as text, an image by its extension) and b.jpg
\* both got the key jpg and were written to one directory as a.JPG and b.jpg.
C16_Witness ==
    /\ TypeCalled
    /\ call.arg.names = <<"a.JPG", "b.jpg">>
    /\ call.arg.mime = "text/plain"
    /\ call.out.keys = <<"jpg", "jpg">>
    /\ DirName(call.out.dests[1]) = DirName(call.out.dests[2])
    /\ BaseName(call.out.dests[1]) = "a.JPG"
    /\ BaseName(call.out.dests[2]) = "b.jpg"
ChatCalled == call.fn = "by_chat"

IsChatName(part) == StartsWith(part, "msg") \/ StartsWith(part, "chat")

\* The directory components of a path that begin with msg or chat.
ChatDirs(path) == SelectSeq(DirName(path), IsChatName)

\* C17 as claimed: the bucket of by_chat is the first directory component of
\* the source path that begins with msg or chat, unknown when there is none;
\* the file's own name never supplies it.
C17_BucketFromDirectories ==
    ChatCalled =>
        call.out = IF ChatDirs(call.arg) # <<>> THEN Head(ChatDirs(call.arg))
                   ELSE "unknown"
ClassifierCalled == call.fn = "smart_categorize"

\* The keyword groups with a keyword in the lower-case name, by position.
MatchingGroups(name) ==
    {g \in 1..Len(KeywordGroups) : \E kw \in KeywordGroups[g][1] : Contains(Lower(name), kw)}

\* The category by coarse type when no keyword matches.
DefaultCategory(file_info) ==
    CASE file_info.file_type = "image"    -> "images_photos"
      [] file_info.file_type = "video"    -> "videos"
      [] file_info.file_type = "audio"    -> "audio_recordings"
      [] file_info.file_type = "document" ->
             IF file_info.extension \in {".xls", ".xlsx", ".csv"}
             THEN "data_spreadsheets" ELSE "documents"
      [] file_info.file_type = "archive"  -> "archives"
      [] OTHER -> "other_files"

\* C19 as claimed: the keyword classifier returns the category of the earliest
\* keyword group with a keyword in the lower-case file name, and the default
\* of the coarse type only when no group has one.
C19_FirstMatchWins ==
    ClassifierCalled =>
        call.out =
            IF MatchingGroups(call.arg.name) # {}
            THEN KeywordGroups[CHOOSE g \in MatchingGroups(call.arg.name) :
                                   \A h \in MatchingGroups(call.arg.name) : g <= h][2]
            ELSE DefaultCategory(call.arg)
\* scan_directory has returned.
Scanned == pc \notin {"start", "scan", "raised"} /\ target_dir \in dirs

\* The paths of the descriptors scan_directory returned.
ScannedPaths == {files[k].path : k \in 1..Len(files)}

\* C18: the scan ends by returning a list, also an empty one when nothing is
\* below the root; a file get_file_info cannot read is left out and every
\* other regular file below the root is returned, each once, with its own
\* name and size; no directory is returned. (Stated where scan_directory has
\* just returned; the list and the histories it is compared with do not
\* change afterwards.)
C18_ScanSkipsUnreadable ==
    (Scanned /\ ((pc = "dispatch" /\ mi = 1) \/ files = <<>>)) =>
        /\ ScannedPaths = {p \in DOMAIN fs0 : UnderSource(p)} \ unread
        /\ \A j, k \in 1..Len(files) : j # k => files[j].path # files[k].path
        /\ \A k \in 1..Len(files) :
               /\ files[k].path \notin dirs0
               /\ files[k].name = BaseName(files[k].path)
               /\ files[k].size = fs0[files[k].path].size
        /\ {p \in DOMAIN fs0 : UnderSource(p)} = {} => files = <<>>

\* C18 witness: the scan has left out one unreadable file that was walked
\* before a readable one, which it returned.
C18_Witness ==
    /\ Scanned
    /\ \E p \in unread, k \in 1..Len(files) :
           /\ p = Tree[1].path
           /\ files[k].path = Tree[3].path
\* C20 as claimed: repeating a copy run (same source tree, target root and
\* strategies) after the first has completed leaves the files below the
\* target root as the first run left them and adds none.
C20_RerunAddsNothing ==
    (run = 2 /\ Succeeded /\ keep_originals /\ faults = 0 /\ ~UnderSource(target_dir)) =>
        {p \in DOMAIN fs : UnderTarget(p)} = {p \in DOMAIN fs0 : UnderTarget(p)}
\* -------------------------------------------------- several strategies, copy
\* The writes that pass m made for the descriptor fi.
PlacedFor(m, f) == {i \in 1..Len(placed) : placed[i].mi = m /\ placed[i].fi = f}

\* The name of the entry of the target root that path lies below.
SubRootOf(path) == path[Len(target_dir) + 1]

\* The passes of the request that apply a known strategy.
RecognizedPasses == {m \in 1..Len(methods) : Recognized(m)}

\* Nothing fails in the run: no fault arrives, and by_content, when it is
\* requested, has a classifier.
RunsWithoutError == faults = 0 /\ (Requested("by_content") => ai_analyzer)

\* C21: under copy policy, the target root outside the source tree and every
\* one of the k recognized strategies running without error, each scanned
\* descriptor is processed once per strategy, the strategies in request order
\* and the descriptors in scan order; each scanned file ends with exactly k
\* copies below the target root, and the writes of different strategies lie
\* below different entries of the target root, so they never coincide.
C21_OneCopyPerStrategy ==
    (Succeeded /\ keep_originals /\ target_dir = Outside /\ RunsWithoutError) =>
        /\ \A f \in 1..Len(files) :
               /\ \A m \in RecognizedPasses : Cardinality(PlacedFor(m, f)) = 1
               /\ Cardinality({q \in HoldersOf(files[f].path) : UnderTarget(q)})
                      = Cardinality(RecognizedPasses)
               /\ files[f].path \in HoldersOf(files[f].path)
        /\ Len(placed) = Len(files) * Cardinality(RecognizedPasses)
        /\ \A i, j \in 1..Len(placed) :
               /\ UnderTarget(placed[i].dest)
               /\ Len(placed[i].dest) > Len(target_dir) + 1
               /\ i < j => \/ placed[i].mi < placed[j].mi
                           \/ placed[i].mi = placed[j].mi /\ placed[i].fi < placed[j].fi
               /\ placed[i].mi # placed[j].mi =>
                      /\ SubRootOf(placed[i].dest) # SubRootOf(placed[j].dest)
                      /\ placed[i].dest # placed[j].dest

C21_Witness ==
    /\ Succeeded /\ keep_originals /\ target_dir = Outside /\ RunsWithoutError
    /\ methods = <<"by_type", "by_size">>
    /\ Len(files) >= 2
    /\ Len(placed) = 2 * Len(files)
\* ------------------------------------------- two runs relocating at once
\* Two runs of organize_files over one source and one target with by_type,
\* each in its own thread or process, after both have scanned. A run takes
\* its descriptors in order; for each, _move_or_copy_file first settles the
\* destination path by os.path.exists (377-382) and later, in a second system
\* call, copies or moves to it (384-387); the other run can act in between.
Workers == {1, 2}

\* everything the two runs leave alone
sequential == <<source_dir, target_dir, methods, ai_analyzer, keep_originals, stdout,
                call, run, pc, files, mi, fi, cur, organized_files, result, fs0,
                dirs0, placed, skipped, vanished, unread, made, gui>>

RaceInit ==
    /\ \E present \in SUBSET (1..Len(Tree)) :
         /\ present # {}
         /\ Cardinality(present) <= MaxFiles
         /\ InitDisk(present, Outside, FALSE)
         /\ \E order \in WalkOrders(fs, <<"src">>, Outside) :
                files = scan_directory(fs, order, {})
    /\ methods = <<"by_type">>
    /\ keep_originals \in BOOLEAN
    /\ ai_analyzer = FALSE
    /\ stdout = "utf-8"
    /\ pc = "loop"
    /\ call = NoCall
    /\ run = 1
    /\ mi = 1
    /\ fi = 1
    /\ cur = NoLocals
    /\ organized_files = <<>>
    /\ result = NoResult
    /\ placed = <<>>
    /\ skipped = {}
    /\ vanished = {}
    /\ unread = {}
    /\ made = <<>>
    /\ faults = 0
    /\ gui = Constructed
    /\ workers = [at  |-> [w \in Workers |-> [pc |-> "check", k |-> 1, destination |-> <<>>]],
                  log |-> <<>>]

\* Lines 183-185 and 377-382 of run w for its next descriptor: the bucket
\* directory is made and the destination path is settled on the disk as it is.
CheckDestination(w) ==
    LET me        == workers.at[w]
        file_info == files[me.k]
        dir       == BucketDir(target_dir, "by_type", BucketKey("by_type", file_info))
        after     == dirs \cup Parents(dir)
        dest      == ResolveDestination(fs, after, Join(dir, file_info.name))
    IN  /\ me.pc = "check"
        /\ me.k <= Len(files)
        /\ dirs' = after
        /\ workers' = [at  |-> [workers.at EXCEPT ![w] =
                                   [pc |-> "write", k |-> me.k, destination |-> dest]],
                       log |-> Append(workers.log,
                                      [w |-> w, op |-> "check", k |-> me.k,
                                       destination |-> dest, wrote |-> FALSE])]
        /\ UNCHANGED <<sequential, fs, faults>>

\* Lines 384-391 of run w: the copy or move to the path settled before, which
\* replaces a file that has appeared there since (shutil.copy2 opens the
\* destination for writing, shutil.move renames onto it or falls back to the
\* copy); a source the other run moved away raises and the relocation returns
\* False.
WriteDestination(w) ==
    LET me     == workers.at[w]
        source == files[me.k].path
        next   == [pc |-> IF me.k = Len(files) THEN "done" ELSE "check",
                   k |-> me.k + 1, destination |-> <<>>]
    IN  /\ me.pc = "write"
        /\ fs' = IF source \notin DOMAIN fs THEN fs
                 ELSE IF keep_originals
                      THEN Copy2(fs, source, me.destination, "ok")
                      ELSE Move(fs, source, me.destination, "ok")
        /\ workers' = [at  |-> [workers.at EXCEPT ![w] = next],
                       log |-> Append(workers.log,
                                      [w |-> w, op |-> "write", k |-> me.k,
                                       destination |-> me.destination,
                                       wrote |-> source \in DOMAIN fs])]
        /\ UNCHANGED <<sequential, dirs, faults>>

RaceNext ==
    \E w \in Workers :
        \/ CheckDestination(w)
        \/ WriteDestination(w)

Race == RaceInit /\ [][RaceNext]_vars

\* The positions in the log of the relocations that put a file at path.
WritesTo(path) ==
    {i \in 1..Len(workers.log) :
        /\ workers.log[i].op = "write"
        /\ workers.log[i].wrote
        /\ workers.log[i].destination = path}

\* The position in the log of the existence check that belongs to the write
\* at position i.
CheckOf(i) ==
    CHOOSE c \in 1..Len(workers.log) :
        /\ workers.log[c].op = "check"
        /\ workers.log[c].w = workers.log[i].w
        /\ workers.log[c].k = workers.log[i].k

\* The paths two relocations both wrote to.
WrittenTwice ==
    {workers.log[i].destination : i \in {j \in 1..Len(workers.log) :
        Cardinality(WritesTo(workers.log[j].destination)) > 1}}

\* C22: the existence check and the write of _move_or_copy_file are two
\* steps. When two relocations wrote to one path, they belong to different
\* runs and the later writer had passed its check before the earlier one
\* wrote (a run alone, or a check made after the other's write, never
\* collides); the path then holds the file of the later writer only.
C22_CollisionOnlyInWindow ==
    \A i, j \in 1..Len(workers.log) :
        (i < j /\ j \in WritesTo(workers.log[i].destination) /\ i \in WritesTo(workers.log[i].destination)) =>
            /\ workers.log[i].w # workers.log[j].w
            /\ CheckOf(j) < i
            /\ (\A l \in WritesTo(workers.log[i].destination) : l <= j) =>
                   fs[workers.log[j].destination].id
                       = fs0[files[workers.log[j].k].path].id

\* Both runs passed the check for one path and both wrote to it: two files of
\* different content were placed there and the one written first is nowhere
\* below the target root.
C22_Witness ==
    \E i, j \in 1..Len(workers.log) :
        /\ i < j
        /\ i \in WritesTo(workers.log[j].destination)
        /\ j \in WritesTo(workers.log[j].destination)
        /\ CheckOf(i) < i /\ CheckOf(j) < i
        /\ workers.log[i].k # workers.log[j].k
        /\ \A q \in DOMAIN fs :
               UnderTarget(q) => fs[q].id # fs0[files[workers.log[i].k].path].id
\* -------------------------------------------------- several strategies, move
\* The descriptor f was relocated by a pass before m.
MovedBefore(m, f) == \E i \in 1..Len(placed) : placed[i].fi = f /\ placed[i].mi < m

\* The source paths in the relocation records of the plan of method, if any.
RecordedOriginals(method) ==
    IF HasPlan(organized_files, method)
       /\ "moved_files" \in DOMAIN PlanOf(organized_files, method)
    THEN {PlanOf(organized_files, method).moved_files[r].original :
             r \in 1..Len(PlanOf(organized_files, method).moved_files)}
    ELSE {}

\* C23: under move policy, a file an earlier strategy of the request moved is
\* not relocated by a later strategy: the later pass writes nothing for the
\* descriptor and its plan has no record of it, yet the run goes on and, when
\* nothing fails in the environment, is reported as success.
C23_LaterStrategyFindsNothing ==
    ~keep_originals =>
        /\ \A m \in RecognizedPasses : \A f \in 1..Len(files) :
               MovedBefore(m, f) =>
                   /\ PlacedFor(m, f) = {}
                   /\ files[f].path \notin RecordedOriginals(methods[m])
        /\ (Done /\ faults = 0 /\ files # <<>> /\ stdout = "utf-8") => result.success
\* -------------------------------------------------- bucket directories
\* The directories the passes of the run made for their buckets.
MadeDirs == {made[i][2] : i \in 1..Len(made)}

RECURSIVE UnionOf(_)
UnionOf(sets) ==
    IF sets = {} THEN {}
    ELSE LET one == CHOOSE x \in sets : TRUE IN one \cup UnionOf(sets \ {one})

\* The relocations pass m attempted into dir: the descriptors it wrote there
\* and those whose copy or move failed.
AttemptsInto(m, dir) ==
    {placed[i].fi : i \in {k \in 1..Len(placed) :
                               placed[k].mi = m /\ DirName(placed[k].dest) = dir}}
    \cup {s.fi : s \in {t \in skipped : t.why = "relocation" /\ t.mi = m /\ t.dir = dir}}

\* C24: a pass makes a bucket directory at most once, only for a directory
\* a scanned descriptor maps to under its strategy (one it then relocates
\* there), and before the relocation into it is attempted (every relocation,
\* completed or failed, was into a directory its pass had made and that
\* exists); the target root exists once the scan begins; the run adds no
\* other directory.
C24_BucketsMadeOncePerPass ==
    /\ \A i, j \in 1..Len(made) : i # j => made[i] # made[j]
    /\ \A i \in 1..Len(made) :
           /\ AttemptsInto(made[i][1], made[i][2]) # {}
           /\ AttemptsInto(made[i][1], made[i][2]) \subseteq 1..Len(files)
    /\ \A i \in 1..Len(placed) :
           /\ <<placed[i].mi, DirName(placed[i].dest)>> \in {made[k] : k \in 1..Len(made)}
           /\ DirName(placed[i].dest) \in dirs
    /\ \A s \in skipped :
           s.why = "relocation" =>
               /\ <<s.mi, s.dir>> \in {made[k] : k \in 1..Len(made)}
               /\ s.dir \in dirs
    /\ (pc \in {"scan", "dispatch", "loop"} \/ made # <<>>) => target_dir \in dirs
    /\ dirs \ dirs0 \subseteq
           Parents(target_dir) \cup UnionOf({Parents(d) : d \in MadeDirs})

\* A finished pass has placed two files in one bucket directory, which it
\* made once, and another directory besides.
C24_Witness ==
    /\ Succeeded
    /\ Len(made) >= 2
    /\ \E i, j \in 1..Len(placed) :
           /\ i # j
           /\ placed[i].mi = placed[j].mi
           /\ DirName(placed[i].dest) = DirName(placed[j].dest)
           /\ DirName(placed[i].dest) \notin dirs0
\* -------------------------------------------------- plans
\* The relocation records of pass m: those of its plan once the pass is over,
\* those of the running handler while it is the current pass.
RecordsOf(m) ==
    IF pc = "loop" /\ mi = m THEN cur.moved_files
    ELSE IF HasPlan(organized_files, methods[m])
            /\ "moved_files" \in DOMAIN PlanOf(organized_files, methods[m])
         THEN PlanOf(organized_files, methods[m]).moved_files
         ELSE <<>>

\* The writes pass m completed, in processing order.
WritesOf(m) == SelectSeq(placed, LAMBDA e : e.mi = m)

\* C25 as claimed: the relocation records of a pass are, in order, its
\* completed relocations: the original path is the descriptor's source path
\* and the new path is the path the file was written to, suffix included, so
\* the new paths of one plan are pairwise distinct.
C25_RecordsNameWrittenPaths ==
    \A m \in RecognizedPasses :
        (m < mi \/ (m = mi /\ pc = "loop")) =>
            /\ Len(RecordsOf(m)) = Len(WritesOf(m))
            /\ \A r \in 1..Len(RecordsOf(m)) :
                   /\ RecordsOf(m)[r].original = WritesOf(m)[r].source
                   /\ RecordsOf(m)[r].new = WritesOf(m)[r].dest
            /\ \A r, q \in 1..Len(RecordsOf(m)) :
                   r # q => RecordsOf(m)[r].new # RecordsOf(m)[q].new
\* The directories manifest of pass m, as RecordsOf.
DirectoriesOf(m) ==
    IF pc = "loop" /\ mi = m THEN cur.directories
    ELSE IF HasPlan(organized_files, methods[m])
            /\ "directories" \in DOMAIN PlanOf(organized_files, methods[m])
         THEN PlanOf(organized_files, methods[m]).directories
         ELSE <<>>

\* The names under which pass m wrote files into dir, in processing order.
NamesWritten(m, dir) ==
    LET into == SelectSeq(WritesOf(m), LAMBDA e : DirName(e.dest) = dir)
    IN  [k \in 1..Len(into) |-> BaseName(into[k].dest)]

\* C26 as claimed: the manifest of a pass lists, for each directory it made,
\* the names its completed relocations gave the files in that directory, in
\* processing order: one entry per completed relocation, none for a failed
\* one, the entries of one directory pairwise distinct.
C26_ManifestNamesPlacedFiles ==
    \A m \in RecognizedPasses :
        (m < mi \/ (m = mi /\ pc = "loop")) =>
            \A dir \in DOMAIN DirectoriesOf(m) :
                /\ DirectoriesOf(m)[dir] = NamesWritten(m, dir)
                /\ \A r, q \in 1..Len(DirectoriesOf(m)[dir]) :
                       r # q => DirectoriesOf(m)[dir][r] # DirectoriesOf(m)[dir][q]
\* -------------------------------------------------- by_type directories
\* The extension keys chinese_names sends to the directory of image files.
ImageKeys == {"jpg", "png", "gif", "bmp", "tiff", "heic", "webp"}

\* C27 as claimed: two files are written to one by_type directory exactly
\* when their extension keys are equal.
C27_SameDirectoryIffSameKey ==
    TypeCalled =>
        (DirName(call.out.dests[1]) = DirName(call.out.dests[2])
            <=> call.out.keys[1] = call.out.keys[2])

\* C27: files with equal extension keys are written to one by_type directory,
\* and so are files whose keys differ but are both image extensions (jpg and
\* png share the directory of image files); a key from the image group and a
\* key outside it never share a directory.
C27_SameDirectoryIffSameName ==
    TypeCalled =>
        /\ call.out.keys[1] = call.out.keys[2] =>
               DirName(call.out.dests[1]) = DirName(call.out.dests[2])
        /\ (call.out.keys[1] \in ImageKeys /\ call.out.keys[2] \in ImageKeys) =>
               DirName(call.out.dests[1]) = DirName(call.out.dests[2])
        /\ (call.out.keys[1] \in ImageKeys /\ call.out.keys[2] \notin ImageKeys) =>
               DirName(call.out.dests[1]) # DirName(call.out.dests[2])
        /\ (call.out.keys[1] \notin ImageKeys /\ call.out.keys[2] \notin ImageKeys) =>
               (DirName(call.out.dests[1]) = DirName(call.out.dests[2])
                   <=> call.out.keys[1] = call.out.keys[2])

\* i.PNG and b.jpg, of keys png and jpg, were written to one directory.
C27_Witness ==
    /\ TypeCalled
    /\ call.arg.names = <<"i.PNG", "b.jpg">>
    /\ call.out.keys = <<"png", "jpg">>
    /\ DirName(call.out.dests[1]) = DirName(call.out.dests[2])
    /\ BaseName(DirName(call.out.dests[1])) = "TuPianWenJian"
\* -------------------------------------------------- files already in the target
\* The least k for which dir has no entry named Numbered(name, k), on the disk
\* as it is before the write.
SmallestFree(dir, name) ==
    CHOOSE k \in 0..(Cardinality(DOMAIN fs) + 1) :
        /\ ~Exists(fs, dirs', Join(dir, Numbered(name, k)))
        /\ \A j \in 0..(k - 1) : Exists(fs, dirs', Join(dir, Numbered(name, j)))

\* C28: with the target root outside the source tree, no step of the run
\* removes or changes a file that is below the target root (one that was there
\* before the run, or one the run placed), under copy and under move policy;
\* a completed relocation wrote to a path that was free, the candidate path
\* itself or, when that was taken, the one with the smallest free suffix _k.
C28_NeverOverwrites ==
    [][target_dir = Outside =>
         /\ \A p \in DOMAIN fs :
                UnderTarget(p) => p \in DOMAIN fs' /\ fs'[p] = fs[p]
         /\ Len(placed') > Len(placed) =>
                LET e    == placed'[Len(placed')]
                    dir  == DirName(e.dest)
                    name == BaseName(e.source)
                IN  /\ e.dest \notin DOMAIN fs
                    /\ e.dest = Join(dir, Numbered(name, SmallestFree(dir, name)))]_vars

\* A move run has ended with the file that was in the target before the run
\* still in place and unchanged, and two files of its name placed beside it
\* as _1 and _2.
C28_Witness ==
    /\ Succeeded /\ ~keep_originals /\ target_dir = Outside
    /\ Leftover(Outside).path \in DOMAIN fs0
    /\ fs[Leftover(Outside).path] = fs0[Leftover(Outside).path]
    /\ \E i, j \in 1..Len(placed) :
           /\ placed[i].dest = Join(DirName(Leftover(Outside).path), "photo_1.png")
           /\ placed[j].dest = Join(DirName(Leftover(Outside).path), "photo_2.png")
\* -------------------------------------------------- termination
\* The steps of organize_files itself; the thread that called it runs them one
\* after the other until it returns or raises.
Step ==
    \/ ExceptionEscapes
    \/ EnsureTargetDir
    \/ ScanSource
    \/ ApplyMethod
    \/ OrganizeFile
    \/ FinishMethod
    \/ Finish

\* One call of organize_files that is not suspended for ever.
Runs == Init /\ [][Next]_vars /\ WF_vars(Step)

\* organize_files has returned its result dictionary.
Returned == pc = "done" /\ result # NoResult

\* The number of entries of dir on the disk before the write.
EntriesIn(dir) ==
    Cardinality({q \in (DOMAIN fs) \cup dirs' : Len(q) > 0 /\ DirName(q) = dir})

\* C29 as claimed: every call of organize_files ends by returning a result,
\* and a completed relocation tried no more suffixes than the destination
\* directory had entries.
C29_TerminatesWithResult ==
    /\ <>Returned
    /\ [][Len(placed') > Len(placed) =>
             LET e == placed'[Len(placed')]
             IN  SmallestFree(DirName(e.dest), BaseName(e.source))
                     <= EntriesIn(DirName(e.dest))]_vars
\* -------------------------------------------------- the main window
\* everything the window's handlers leave alone
engine == <<source_dir, target_dir, methods, ai_analyzer, keep_originals, stdout,
            call, run, fs, dirs, pc, files, mi, fi, cur, organized_files, result,
            fs0, dirs0, placed, skipped, vanished, unread, made, faults, workers>>

GuiInit ==
    /\ InitDisk({1}, Outside, FALSE)
    /\ methods = <<"by_type">>
    /\ keep_originals = TRUE
    /\ ai_analyzer = FALSE
    /\ stdout = "utf-8"
    /\ InitRun

\* What the user can have in the source field: nothing, a directory with
\* files, a directory without files, a path that does not exist.
SourceTexts == {"", "src", "hollow", "gone"}
TargetTexts == {"", "out"}

\* check_paths, connected to textChanged of both path fields
check_paths(window) ==
    [window EXCEPT !.scan_btn = window.source_path_edit # ""
                                /\ window.target_path_edit # ""]

\* The user types or browses a new source path.
EditSource ==
    /\ \E text \in SourceTexts \ {gui.source_path_edit} :
           gui' = check_paths([gui EXCEPT !.source_path_edit = text])
    /\ UNCHANGED engine

\* The user types or browses a new target path.
EditTarget ==
    /\ \E text \in TargetTexts \ {gui.target_path_edit} :
           gui' = check_paths([gui EXCEPT !.target_path_edit = text])
    /\ UNCHANGED engine

\* The user ticks the first strategy box or clears the last one.
ToggleMethod ==
    /\ gui' = [gui EXCEPT !.checked = ~gui.checked]
    /\ UNCHANGED engine

\* The signals of kind that are queued for the window.
Queued(kind) == SelectSeq(gui.signals, LAMBDA sig : sig.kind = kind)

\* scan_files, the slot of the scan button: a click reaches it only while the
\* button is enabled.
scan_files ==
    /\ gui.scan_btn
    /\ Len(gui.scan_threads) + Len(Queued("scan")) < MaxThreads
    /\ IF gui.source_path_edit \in {"", "gone"}
       THEN gui' = gui
       ELSE gui' = [gui EXCEPT
                      !.scan_threads = Append(gui.scan_threads, gui.source_path_edit),
                      !.scan_btn = FALSE]
    /\ UNCHANGED engine

\* ScanThread.run of the k-th running scan thread ends: it emits finished with
\* the list it found, which Qt queues for the window's thread.
ScanThreadRun ==
    /\ \E k \in 1..Len(gui.scan_threads) :
           gui' = [gui EXCEPT
                     !.scan_threads = SubSeq(gui.scan_threads, 1, k - 1)
                                      \o SubSeq(gui.scan_threads, k + 1,
                                                Len(gui.scan_threads)),
                     !.signals = Append(gui.signals,
                                        [kind  |-> "scan",
                                         files |-> gui.scan_threads[k] = "src"])]
    /\ UNCHANGED engine

\* on_scan_finished(files)
on_scan_finished ==
    /\ gui.signals # <<>>
    /\ Head(gui.signals).kind = "scan"
    /\ gui' = [gui EXCEPT !.signals = Tail(gui.signals),
                          !.scan_btn = TRUE,
                          !.organize_btn = Head(gui.signals).files]
    /\ UNCHANGED engine

\* organize_files of the window, the slot of the organize button.
gui_organize_files ==
    /\ gui.organize_btn
    /\ gui.organize_threads + Len(Queued("organize")) < MaxThreads
    /\ IF gui.source_path_edit = "" \/ gui.target_path_edit = "" \/ ~gui.checked
       THEN gui' = gui
       ELSE gui' = [gui EXCEPT !.organize_btn = FALSE,
                               !.organize_threads = gui.organize_threads + 1]
    /\ UNCHANGED engine

\* OrganizeThread.run of a running organize thread ends: organize_files has
\* returned or raised, and the thread emits finished with a result.
OrganizeThreadRun ==
    /\ gui.organize_threads > 0
    /\ gui' = [gui EXCEPT !.organize_threads = gui.organize_threads - 1,
                          !.signals = Append(gui.signals,
                                             [kind |-> "organize", files |-> FALSE])]
    /\ UNCHANGED engine

\* on_organize_finished(result)
on_organize_finished ==
    /\ gui.signals # <<>>
    /\ Head(gui.signals).kind = "organize"
    /\ gui' = [gui EXCEPT !.signals = Tail(gui.signals),
                          !.organize_btn = TRUE]
    /\ UNCHANGED engine

GuiNext ==
    \/ EditSource
    \/ EditTarget
    \/ ToggleMethod
    \/ scan_files
    \/ ScanThreadRun
    \/ on_scan_finished
    \/ gui_organize_files
    \/ OrganizeThreadRun
    \/ on_organize_finished

Gui == GuiInit /\ [][GuiNext]_vars

\* C30 as claimed: the window never has two organize threads running, and
\* from the start of one until its finished signal is handled the organize
\* button is disabled.
C30_OneOrganizeThread ==
    /\ gui.organize_threads <= 1
    /\ (gui.organize_threads > 0 \/ Queued("organize") # <<>>) => ~gui.organize_btn
====
